---- MODULE Spec2Model ----
(***************************************************************************)
(* A model of city_scrapers/spiders/alle_library_assoc.py: the spider's    *)
(* page parse (parse), its structural checks                               *)
(* (_ensure_times_are_as_expected, _ensure_meetings_are_remote,            *)
(* _get_dates), the date-line parser (_date_from_lis with date_reg and     *)
(* datetime.strptime) and the schedule assembler (_make_meeting).          *)
(*                                                                         *)
(* Text is a sequence of characters; a character is a one-character string *)
(* ("a", " ", "\t") or the code point's name ("U+2003") for the characters *)
(* that have no ASCII spelling.  None is <<>> and a present value v is     *)
(* <<v>>, so that an absent note and an empty note differ.                 *)
(***************************************************************************)
EXTENDS Integers, Sequences, FiniteSets, TLC

VARIABLES
    pc,             \* position of the running call
    entry,          \* the method that was called: "parse", "_date_from_lis", "_make_meeting"
    page,           \* the Board section of the response, as the xpath queries see it
    meeting_times,  \* parse's meeting_times: None or <<MeetingTimes>>
    lis,            \* the lists of lines given to _date_from_lis, one per call
    dates,          \* the lists of MeetingDate given to _make_meeting, one per call
    args,           \* the other arguments of each _make_meeting call
    cat,            \* which call (category) is running: index in lis / dates
    i,              \* index of the loop over lis[cat] or dates[cat]
    out,            \* the running call's local result list (dates or meetings)
    acc,            \* parse's meetings, the results of the finished _make_meeting calls
    returned,       \* None, or <<value>> once the entry call has returned
    error,          \* "none", or the exception that left the entry call
    now,            \* the clock: what datetime.now() and date.today() read
    handed,         \* how many lines have been handed to date_reg by _date_from_lis
    warnings,       \* how many log.warning calls _date_from_lis has made
    read_log,       \* per meeting made, None or <<the value datetime.now() gave for it>>
    input           \* how the input of the entry call was drawn

vars == <<pc, entry, page, meeting_times, lis, dates, args, cat, i, out, acc,
          returned, error, now, handed, warnings, read_log, input>>

None == <<>>
Some(v) == <<v>>

-----------------------------------------------------------------------------
(* Bounds of the model.                                                    *)

\* the longest list of lines handed to _date_from_lis
MaxLis == 2
\* the longest list of MeetingDate handed to _make_meeting
MaxDates == 2
\* how many minutes the clock can advance during a run
MaxTick == 2

-----------------------------------------------------------------------------
(* Characters and the str methods the spider uses.                         *)

LowerSeq == <<"a","b","c","d","e","f","g","h","i","j","k","l","m",
              "n","o","p","q","r","s","t","u","v","w","x","y","z">>
UpperSeq == <<"A","B","C","D","E","F","G","H","I","J","K","L","M",
              "N","O","P","Q","R","S","T","U","V","W","X","Y","Z">>
DigitSeq == <<"0","1","2","3","4","5","6","7","8","9">>

Range(s) == {s[k] : k \in 1..Len(s)}

\* the whitespace of the test's `spaces`, and the line feed
Spaces == {"U+2003", "U+2004", "U+2008", "U+00A0", "\t", " "}
SpaceChars == Spaces \cup {"\n"}
DigitChars == Range(DigitSeq)
UpperChars == Range(UpperSeq)
WordChars == Range(LowerSeq) \cup UpperChars \cup DigitChars \cup {"_"}

\* what \s, \d, \w, the class of the two dashes and . match
IsSpace(c) == c \in SpaceChars
IsDigit(c) == c \in DigitChars
IsWord(c) == c \in WordChars
\* a bug: the class of date_reg holds the hyphen-minus only
IsDashHyphenOnly(c) == c = "-"
IsDash(c) == c \in {"U+2013", "-"}
IsDot(c) == c # "\n"

\* the character c is of the class cls of a regular expression
Matches(cls, c) ==
    IF cls = "\\w" THEN IsWord(c)
    ELSE IF cls = "\\s" THEN IsSpace(c)
    ELSE IF cls = "\\d" THEN IsDigit(c)
    ELSE IsDot(c)

DigitVal(c) == (CHOOSE k \in 1..10 : DigitSeq[k] = c) - 1
DigitChar(n) == DigitSeq[n + 1]

CasefoldChar(c) ==
    IF c \in UpperChars
    THEN LowerSeq[CHOOSE k \in 1..26 : UpperSeq[k] = c]
    ELSE c
Casefold(s) == [k \in 1..Len(s) |-> CasefoldChar(s[k])]

\* needle in hay
Contains(hay, needle) ==
    \E k \in 0..(Len(hay) - Len(needle)) : SubSeq(hay, k + 1, k + Len(needle)) = needle

RECURSIVE SkipWhile(_, _, _)
\* the end of the longest run of characters of the class cls that starts at j
SkipWhile(cls, s, j) ==
    IF j > Len(s) \/ ~Matches(cls, s[j]) THEN j ELSE SkipWhile(cls, s, j + 1)

RECURSIVE TrailStartFrom(_, _)
\* the start of the run of whitespace that ends before b
TrailStartFrom(s, b) ==
    IF b = 1 \/ ~IsSpace(s[b - 1]) THEN b ELSE TrailStartFrom(s, b - 1)
\* the start of the longest run of whitespace that ends s
TrailStart(s) == TrailStartFrom(s, Len(s) + 1)

\* str.strip()
Strip(s) ==
    IF SkipWhile("\\s", s, 1) > Len(s) THEN <<>>
    ELSE SubSeq(s, SkipWhile("\\s", s, 1), TrailStart(s) - 1)

StartsWithAt(s, j, w) == j + Len(w) - 1 <= Len(s) /\ SubSeq(s, j, j + Len(w) - 1) = w

-----------------------------------------------------------------------------
(* The calendar: datetime.date's validation.                               *)

IsLeap(y) == y % 4 = 0 /\ (y % 100 # 0 \/ y % 400 = 0)
DaysInMonth(y, m) ==
    IF m = 2 THEN (IF IsLeap(y) THEN 29 ELSE 28)
    ELSE IF m \in {4, 6, 9, 11} THEN 30 ELSE 31
\* date(y, m, d) does not raise ValueError
ValidDate(y, m, d) == m \in 1..12 /\ d >= 1 /\ d <= DaysInMonth(y, m)

Date(y, m, d) == [y |-> y, m |-> m, d |-> d]
Time(h, mi) == [h |-> h, mi |-> mi]
\* datetime.combine
Combine(d, t) == [y |-> d.y, m |-> d.m, d |-> d.d, h |-> t.h, mi |-> t.mi]
\* datetime.__lt__
DtLess(a, b) ==
    \/ a.y < b.y
    \/ a.y = b.y /\ a.m < b.m
    \/ a.y = b.y /\ a.m = b.m /\ a.d < b.d
    \/ a.y = b.y /\ a.m = b.m /\ a.d = b.d /\ a.h < b.h
    \/ a.y = b.y /\ a.m = b.m /\ a.d = b.d /\ a.h = b.h /\ a.mi < b.mi

-----------------------------------------------------------------------------
(* datetime.strptime(date_str, "%A, %B %d")                                *)

WeekdayNames == <<
    <<"m","o","n","d","a","y">>, <<"t","u","e","s","d","a","y">>,
    <<"w","e","d","n","e","s","d","a","y">>, <<"t","h","u","r","s","d","a","y">>,
    <<"f","r","i","d","a","y">>, <<"s","a","t","u","r","d","a","y">>,
    <<"s","u","n","d","a","y">> >>
MonthNames == <<
    <<"j","a","n","u","a","r","y">>, <<"f","e","b","r","u","a","r","y">>,
    <<"m","a","r","c","h">>, <<"a","p","r","i","l">>, <<"m","a","y">>,
    <<"j","u","n","e">>, <<"j","u","l","y">>, <<"a","u","g","u","s","t">>,
    <<"s","e","p","t","e","m","b","e","r">>, <<"o","c","t","o","b","e","r">>,
    <<"n","o","v","e","m","b","e","r">>, <<"d","e","c","e","m","b","e","r">> >>

\* %d is 3[0-1]|[1-2]\d|0[1-9]|[1-9]| [1-9], tried in this order on the two
\* characters c1 c2 at the position: the length and the value of the first
\* alternative that matches, length 0 when none does.  (The last alternative
\* starts with a space, and the \s+ before %d has taken every space: it can
\* match only where [1-9] already has.)
DayOf(c1, c2) ==
    IF c1 = "3" /\ c2 \in {"0", "1"} THEN [len |-> 2, val |-> 30 + DigitVal(c2)]
    ELSE IF c1 \in {"1", "2"} /\ IsDigit(c2)
         THEN [len |-> 2, val |-> 10 * DigitVal(c1) + DigitVal(c2)]
    ELSE IF c1 = "0" /\ IsDigit(c2) /\ c2 # "0" THEN [len |-> 2, val |-> DigitVal(c2)]
    ELSE IF IsDigit(c1) /\ c1 # "0" THEN [len |-> 1, val |-> DigitVal(c1)]
    ELSE [len |-> 0, val |-> 0]

\* %d at j (0: the regex has failed before it)
DayMatch(s, j) ==
    IF j = 0 THEN [len |-> 0, val |-> 0]
    ELSE DayOf(IF j <= Len(s) THEN s[j] ELSE "\n", IF j + 1 <= Len(s) THEN s[j + 1] ELSE "\n")

StrptimeFail == [ok |-> FALSE, month |-> 0, day |-> 0]

\* the names of the sequence `names` that s holds at j (at most one: no weekday
\* or month name starts another)
NamesAt(names, s, j) == {k \in 1..Len(names) : j # 0 /\ StartsWithAt(s, j, names[k])}

\* (?P<A>..) or (?P<B>..) at j: the position after the name, 0 when none matches
AfterName(names, s, j) ==
    IF NamesAt(names, s, j) = {} THEN 0
    ELSE j + Len(names[CHOOSE k \in NamesAt(names, s, j) : TRUE])

\* a literal character at j: the position after it, 0 when it is not there
Lit(c, s, j) == IF j = 0 \/ j > Len(s) \/ s[j] # c THEN 0 ELSE j + 1

\* one or more characters of the class cls, as many as there are, at j: the
\* position after them, 0 when there is none
Plus(cls, s, j) == IF j = 0 \/ SkipWhile(cls, s, j) = j THEN 0 ELSE SkipWhile(cls, s, j)

\* where %B starts in s, 0 when s does not start with a weekday, a comma and spaces
MonthStart(s) == Plus("\\s", s, Lit(",", s, AfterName(WeekdayNames, s, 1)))
\* where %d starts in s
DayStart(s) == Plus("\\s", s, AfterName(MonthNames, s, MonthStart(s)))

\* the datetime strptime builds: the day count of the year is taken in 1900, or
\* in 1904 for February 29, and the datetime itself is always of the year 1900
StrptimeDate(month, day) ==
    IF ~ValidDate(IF month = 2 /\ day = 29 THEN 1904 ELSE 1900, month, day) THEN StrptimeFail
    ELSE IF ~ValidDate(1900, month, day) THEN StrptimeFail
    ELSE [ok |-> TRUE, month |-> month, day |-> day]

StrptimeFolded(s, dm) ==
    IF dm.len = 0 \/ DayStart(s) + dm.len # Len(s) + 1 THEN StrptimeFail
    ELSE StrptimeDate(CHOOSE k \in NamesAt(MonthNames, s, MonthStart(s)) : TRUE, dm.val)

\* The format's regex, (?P<A>..),\s+(?P<B>..)\s+(?P<d>..) with IGNORECASE, must
\* match from the start and leave nothing unconverted.
Strptime(date_str) ==
    StrptimeFolded(Casefold(date_str), DayMatch(Casefold(date_str), DayStart(Casefold(date_str))))

-----------------------------------------------------------------------------
(* date_reg.match: group 1 is  \w+ , \s+ \w+ \s+ \d+ ; the optional group 2 is  *)
(* group 3, a separator ( \s+ dash \s+  or  \s+ , the dash an en-dash or a   *)
(* hyphen-minus), followed by group 4, any characters but a line feed.     *)
(*                                                                         *)
(* Every quantifier of date_reg is greedy and is followed by a character   *)
(* class disjoint from its own, except \w+ \s+ \d+ where a shorter \w+      *)
(* leaves a word character for \s+: backtracking never finds a match the   *)
(* longest runs miss.                                                      *)

NoMatch == [matched |-> FALSE, g1 |-> <<>>, g4 |-> None]

\* where group 1 ends (the position after it), 0 when li does not match
Group1End(li) ==
    Plus("\\d", li,
        Plus("\\s", li,
            Plus("\\w", li,
                Plus("\\s", li,
                    Lit(",", li,
                        Plus("\\w", li, 1))))))

\* a dash at j: the position after it, 0 when there is none
DashAt(s, j) == IF j = 0 \/ j > Len(s) \/ ~IsDash(s[j]) THEN 0 ELSE j + 1

\* where group 4 starts when group 3 starts at j: after \s+ dash \s+ if that
\* matches, else after \s+, and 0 when neither does (group 2 takes no part)
Group3End(li, j) ==
    IF Plus("\\s", li, DashAt(li, Plus("\\s", li, j))) # 0
    THEN Plus("\\s", li, DashAt(li, Plus("\\s", li, j)))
    ELSE Plus("\\s", li, j)

\* group 4 from j: None when group 2 took no part, <<text>> when it did
Group4(li, j) ==
    IF j = 0 THEN None ELSE Some(SubSeq(li, j, SkipWhile(".", li, j) - 1))

MatchTo(li, p) ==
    IF p = 0 THEN NoMatch
    ELSE [matched |-> TRUE, g1 |-> SubSeq(li, 1, p - 1), g4 |-> Group4(li, Group3End(li, p))]

DateRegMatch(li) == MatchTo(li, Group1End(li))

Remote == [name |-> "Remote", address |-> "Remote"]
MeetingDate(d, place, notes) == [the_date |-> d, the_place |-> place, notes |-> notes]

NoMeetingDate == MeetingDate(Date(0, 0, 0), Remote, None)

\* notes = match.group(4).strip() if match.group(4) else None
NotesOf(g4) == IF g4 # None /\ g4[1] # <<>> THEN Some(Strip(g4[1])) ELSE None

\* the_date = date(date.today().year, tmp_date.month, tmp_date.day), and the append
DateOfLi(match, tmp_date, year) ==
    IF ~tmp_date.ok \/ ~ValidDate(year, tmp_date.month, tmp_date.day)
    THEN [kind |-> "ValueError", md |-> NoMeetingDate]
    ELSE [kind |-> "ok",
          md |-> MeetingDate(Date(year, tmp_date.month, tmp_date.day), Remote,
                             NotesOf(match.g4))]

MatchOfLi(match, year) ==
    IF ~match.matched THEN [kind |-> "nomatch", md |-> NoMeetingDate]
    ELSE DateOfLi(match, Strptime(Strip(match.g1)), year)

\* One pass of the loop body of _date_from_lis: "nomatch" (warning, continue),
\* "ValueError" (strptime or date raised) or "ok" with the MeetingDate.
DateFromLi(li, year) == MatchOfLi(DateRegMatch(li), year)

-----------------------------------------------------------------------------
(* _make_meeting: the pieces of one pass of its loop.                      *)

\* city_scrapers_core.constants
CANCELLED == "cancelled"
CONFIRMED == "confirmed"
PASSED == "passed"
BOARD == "Board"
FORUM == "Forum"
ADVISORY_COMMITTEE == "Advisory Committee"
COMMITTEE == "Committee"

Canceled == <<"c","a","n","c","e","l","e","d">>

Pad2(n) == <<DigitChar(n \div 10), DigitChar(n % 10)>>
Pad4(n) == <<DigitChar(n \div 1000), DigitChar((n \div 100) % 10)>> \o Pad2(n % 100)
\* a bug: the format is "%Y_%d", without the month
StrftimeNoMonth(start) == Pad4(start.y) \o <<"_">> \o Pad2(start.d)
\* start.strftime("%Y_%m_%d"), for the years 1000 to 9999
Strftime(start) == Pad4(start.y) \o <<"_">> \o Pad2(start.m) \o <<"_">> \o Pad2(start.d)

\* f"{id_prefix}_{start.strftime(r'%Y_%m_%d')}"
TheId(id_prefix, start) == id_prefix \o <<"_">> \o Strftime(start)

\* the first test of the if: the_date.notes and "canceled" in the_date.notes.casefold()
NotesSayCanceled(notes) ==
    notes # None /\ notes[1] # <<>> /\ Contains(Casefold(notes[1]), Canceled)

\* a bug: the elif reads start <= datetime.now()
StatusOfNotAfter(notes, start, clock) ==
    IF NotesSayCanceled(notes) THEN CANCELLED
    ELSE IF ~DtLess(clock, start) THEN PASSED
    ELSE CONFIRMED
\* the if / elif / else; clock is what datetime.now() returns when it is called
StatusOf(notes, start, clock) ==
    IF NotesSayCanceled(notes) THEN CANCELLED
    ELSE IF DtLess(start, clock) THEN PASSED
    ELSE CONFIRMED

StartUrl == "https://aclalibraries.org/who-we-are/"

Meeting(the_id, title, classification, status, the_date, start) ==
    [id |-> the_id, title |-> title, classification |-> classification,
     status |-> status, all_day |-> FALSE, time_notes |-> the_date.notes,
     location |-> the_date.the_place, source |-> StartUrl, start |-> start]

MakeArgs(meeting_time, id_prefix, title, classification) ==
    [meeting_time |-> meeting_time, id_prefix |-> id_prefix, title |-> title,
     classification |-> classification]

-----------------------------------------------------------------------------
(* The steps of _date_from_lis and _make_meeting.                          *)

Running == pc \notin {"done", "raised"}

\* what one pass of the loop of _date_from_lis does with the outcome r of its line
LiOutcome(r) ==
    /\ pc' = IF r.kind = "ValueError" THEN "raised" ELSE pc
    /\ error' = IF r.kind = "ValueError" THEN "ValueError" ELSE error
    /\ warnings' = IF r.kind = "nomatch" THEN warnings + 1 ELSE warnings
    /\ out' = IF r.kind = "ok" THEN Append(out, r.md) ELSE out
    /\ i' = IF r.kind = "ValueError" THEN i ELSE i + 1

\* One pass of the loop of _date_from_lis over lis[cat].
DateFromLisStep ==
    /\ pc = "_date_from_lis"
    /\ i <= Len(lis[cat])
    /\ LiOutcome(DateFromLi(lis[cat][i], now.y))
    /\ handed' = handed + 1
    /\ UNCHANGED <<entry, page, meeting_times, lis, dates, args, cat, acc,
                   returned, now, read_log, input>>

\* the arguments of the four _make_meeting calls of parse
ParseArgs(times) == <<
    MakeArgs(times.board, <<"a","l","l","e","_","l","i","b","r","a","r","y","_","a","s","s","o","c","_","b","o","a","r","d","_">>,
             "Board Meeting", BOARD),
    MakeArgs(times.general, <<"a","l","l","e","_","l","i","b","r","a","r","y","_","a","s","s","o","c","_","g","e","n","e","r","a","l","_">>,
             "General Meeting", FORUM),
    MakeArgs(times.advisory, <<"a","l","l","e","_","l","i","b","r","a","r","y","_","a","s","s","o","c","_","a","d","v","i","s","o","r","y","_">>,
             "Advisory Council Meeting", ADVISORY_COMMITTEE),
    MakeArgs(times.lac, <<"a","l","l","e","_","l","i","b","r","a","r","y","_","a","s","s","o","c","_","l","a","c","_">>,
             "Lac Executive Comitee Meeting", COMMITTEE) >>

\* return dates: to the caller of _date_from_lis, or to _get_dates, which makes
\* the next of its four calls and then returns to parse, which starts the first
\* of its four _make_meeting calls.
DateFromLisReturn ==
    /\ pc = "_date_from_lis"
    /\ i > Len(lis[cat])
    /\ dates' = Append(dates, out)
    /\ IF entry = "_date_from_lis"
       THEN /\ pc' = "done"
            /\ returned' = Some(out)
            /\ UNCHANGED <<cat, i, out, args>>
       ELSE /\ returned' = returned
            /\ i' = 1
            /\ out' = <<>>
            /\ IF cat < Len(lis)
               THEN pc' = pc /\ cat' = cat + 1 /\ args' = args
               ELSE pc' = "_make_meeting" /\ cat' = 1 /\ args' = ParseArgs(meeting_times[1])
    /\ UNCHANGED <<entry, page, meeting_times, lis, acc, error, now, handed,
                   warnings, read_log, input>>

\* the body of the loop of _make_meeting, start being the combined datetime
MakeOne(the_date, a, start) ==
    /\ out' = Append(out, Meeting(TheId(a.id_prefix, start), a.title, a.classification,
                                  StatusOf(the_date.notes, start, now), the_date, start))
    /\ read_log' = Append(read_log,
                          IF NotesSayCanceled(the_date.notes) THEN None ELSE Some(now))

\* One pass of the loop of _make_meeting over dates[cat]: datetime.now() is called
\* in the pass, and only when the notes do not say canceled.
MakeMeetingStep ==
    /\ pc = "_make_meeting"
    /\ i <= Len(dates[cat])
    /\ MakeOne(dates[cat][i], args[cat],
               Combine(dates[cat][i].the_date, args[cat].meeting_time))
    /\ i' = i + 1
    /\ UNCHANGED <<pc, entry, page, meeting_times, lis, dates, args, cat, acc,
                   returned, error, now, handed, warnings, input>>

\* return meetings: to the caller of _make_meeting, or to parse, which adds them
\* to its own and makes the next call, and returns after the fourth.
MakeMeetingReturn ==
    /\ pc = "_make_meeting"
    /\ i > Len(dates[cat])
    /\ acc' = acc \o out
    /\ out' = <<>>
    /\ i' = 1
    /\ IF cat < Len(dates)
       THEN pc' = pc /\ cat' = cat + 1 /\ returned' = returned
       ELSE pc' = "done" /\ cat' = cat /\ returned' = Some(acc \o out)
    /\ UNCHANGED <<entry, page, meeting_times, lis, dates, args, error, now,
                   handed, warnings, read_log, input>>

\* the clock at the start of a run, MaxTick minutes before it stops advancing
ClockStart(y) == [y |-> y, m |-> 1, d |-> 8, h |-> 6, mi |-> 29]
Clocks(y) == {[ClockStart(y) EXCEPT !.mi = @ + k] : k \in 0..MaxTick}

\* Time passes while a call runs.
Tick ==
    /\ Running
    /\ now.mi < ClockStart(now.y).mi + MaxTick
    /\ now' = [now EXCEPT !.mi = @ + 1]
    /\ UNCHANGED <<pc, entry, page, meeting_times, lis, dates, args, cat, i, out,
                   acc, returned, error, handed, warnings, read_log, input>>

NoPage == [n_board |-> 0, ps |-> <<>>, lac_ps |-> <<>>, remote_ps |-> <<>>,
           uls |-> <<>>, lac_uls |-> <<>>]

-----------------------------------------------------------------------------
(* _date_from_lis called on its own, as the tests call it.                 *)

Upper(c) == UpperSeq[CHOOSE k \in 1..26 : LowerSeq[k] = c]
Capitalize(w) == <<Upper(w[1])>> \o Tail(w)

Years == {2021, 2024}

Seps == {<<c>> : c \in Spaces}
        \cup {<<c, d, e>> : c \in Spaces, d \in {"U+2013", "-"}, e \in Spaces}

Texts == {
    <<>>,
    <<"n","o","t","e">>,
    <<"n","o","t","e"," ","-"," ","o","t","h","e","r"," ","-"," ","n","o","t","e">>,
    <<"n","o","t","e"," ","U+2013"," ","x"," ">>,
    <<"U+2003","x">>,
    <<"-","x">>,
    <<"-"," ","x">>,
    <<"U+2013"," ">>,
    <<"3","p","m">>,
    <<"a","\n","b">>,
    <<"U+00A0">> }

\* "Monday,<a>January<b>27<sep>TEXT"
GridLine(in) ==
    Capitalize(WeekdayNames[1]) \o <<",", in.a>> \o Capitalize(MonthNames[1])
    \o <<in.b, "2", "7">> \o in.sep \o in.text

GridInputs ==
    {[kind |-> "grid", a |-> a, b |-> b, sep |-> sep, text |-> text] :
        a \in Spaces, b \in Spaces, sep \in Seps, text \in Texts}
    \cup {[kind |-> "grid", a |-> " ", b |-> " ", sep |-> <<>>, text |-> <<>>]}

\* the decimal numeral of n < 100, without padding
Numeral(n) == IF n < 10 THEN <<DigitChar(n)>> ELSE Pad2(n)

\* "Thursday, <Month> <day>"
CalLine(in) ==
    Capitalize(WeekdayNames[4]) \o <<",", " ">> \o Capitalize(MonthNames[in.month])
    \o <<" ">> \o Numeral(in.day)

CalInputs == {[kind |-> "cal", month |-> m, day |-> d] : m \in 1..12, d \in 0..32}

LinePool == {
    <<"M","o","n","d","a","y",","," ","J","a","n","u","a","r","y"," ","2","7"," ","-"," ","n","o","t","e">>,
    <<"W","e","d","n","e","s","d","a","y",","," ","J","a","n","u","a","r","y"," ","6">>,
    <<"(","t","e","n","t","a","t","i","v","e",")">>,
    <<"M","o","n",","," ","J","a","n"," ","2","7">>,
    <<"P","l","e","a","s","e",","," ","c","a","l","l"," ","5"," ","d","a","y","s"," ","a","h","e","a","d">>,
    <<"T","u","e","s","d","a","y",","," ","F","e","b","r","u","a","r","y"," ","3","0">>,
    <<"S","e","e"," ","p","a","g","e"," ","1","2",","," ","s","e","c","t","i","o","n"," ","3">> }

RECURSIVE SeqsUpTo(_, _)
SeqsUpTo(S, n) ==
    IF n = 0 THEN {<<>>}
    ELSE LET shorter == SeqsUpTo(S, n - 1)
         IN shorter \cup {Append(s, x) : s \in {t \in shorter : Len(t) = n - 1}, x \in S}

ListInputs == {[kind |-> "list", lines |-> l] : l \in SeqsUpTo(LinePool, MaxLis)}

LisOf(in) ==
    IF in.kind = "grid" THEN <<GridLine(in)>>
    ELSE IF in.kind = "cal" THEN <<CalLine(in)>>
    ELSE in.lines

InitLis ==
    /\ input \in GridInputs \cup CalInputs \cup ListInputs
    /\ entry = "_date_from_lis"
    /\ pc = "_date_from_lis"
    /\ lis = <<LisOf(input)>>
    /\ now \in {ClockStart(y) : y \in Years}
    /\ page = NoPage
    /\ meeting_times = None
    /\ dates = <<>>
    /\ args = <<>>
    /\ cat = 1
    /\ i = 1
    /\ out = <<>>
    /\ acc = <<>>
    /\ returned = None
    /\ error = "none"
    /\ handed = 0
    /\ warnings = 0
    /\ read_log = <<>>

NextLis == DateFromLisStep \/ DateFromLisReturn

SpecLis == InitLis /\ [][NextLis]_vars

-----------------------------------------------------------------------------
(* _make_meeting called on its own, as the tests call it.                  *)

NotePool == {
    None,
    Some(<<>>),
    Some(<<"n","o","t","e","s">>),
    Some(<<"T","h","i","s"," ","m","e","e","t","i","n","g"," ","h","a","s"," ","b","e","e","n"," ","c","a","n","c","e","l","e","d">>),
    Some(<<" ","-"," ","C","A","N","C","E","L","E","D"," ","-">>),
    Some(<<"M","e","e","t","i","n","g"," ","C","a","n","c","e","l","l","e","d">>) }

DatePool == {Date(2021, 1, 8), Date(2021, 2, 8), Date(2020, 12, 31)}

MeetingDatePool == {MeetingDate(d, [key |-> "val"], n) : d \in DatePool, n \in NotePool}

TimePool == {Time(6, 30), Time(18, 30)}

PrefixPool == {<<"m","e","_","p","r","e","f","i","x">>, <<"a","l","l","e","_","l","i","b","r","a","r","y","_","a","s","s","o","c","_","b","o","a","r","d","_">>}

InitMake ==
    /\ input \in {[kind |-> "make", dates |-> l] : l \in SeqsUpTo(MeetingDatePool, MaxDates)}
    /\ entry = "_make_meeting"
    /\ pc = "_make_meeting"
    /\ dates = <<input.dates>>
    /\ args \in {<<MakeArgs(t, pre, "the_title", BOARD)>> : t \in TimePool, pre \in PrefixPool}
    /\ now \in Clocks(2021)
    /\ page = NoPage
    /\ meeting_times = None
    /\ lis = <<>>
    /\ cat = 1
    /\ i = 1
    /\ out = <<>>
    /\ acc = <<>>
    /\ returned = None
    /\ error = "none"
    /\ handed = 0
    /\ warnings = 0
    /\ read_log = <<>>

NextMake == MakeMeetingStep \/ MakeMeetingReturn \/ Tick

SpecMake == InitMake /\ [][NextMake]_vars

-----------------------------------------------------------------------------
(* parse, and the checks of the page it makes first.                       *)
(*                                                                         *)
(* page holds what the xpath queries of parse return: n_board, the number  *)
(* of div elements with an h2 "Board"; ps, lac_ps and remote_ps, the       *)
(* text_content() of the elements matched by "p", "./div/p" and            *)
(* "./div/div/p"; uls and lac_uls, the elements matched by "ul" and        *)
(* "./div/div/ul", each the list of the text_content() of its li.  The     *)
(* fixed sentences of the page are single characters of such a text.       *)

expected_board_p == <<"ACLA Board meetings (6:30 pm unless otherwise noted)">>
expected_general_p == <<"General Membership meetings (7:00 pm)">>
expected_advisory_p == <<"(10:00 am)">>
expected_lac_p == <<"(10:00 am)">>
statement == <<"All meetings will be held remotely until further notice">>

MeetingTimes(board, general, advisory, lac) ==
    [board |-> board, general |-> general, advisory |-> advisory, lac |-> lac]

\* a bug: the paragraphs are compared without .strip()
EnsureTimesNoStrip(board_div) ==
    IF Len(board_div.ps) # 3 THEN None
    ELSE IF Len(board_div.lac_ps) < 2 THEN None
    ELSE IF board_div.ps[1] # expected_board_p THEN None
    ELSE IF board_div.ps[2] # expected_general_p THEN None
    ELSE IF board_div.ps[3] # expected_advisory_p THEN None
    ELSE IF board_div.lac_ps[1] # expected_lac_p THEN None
    ELSE Some(MeetingTimes(Time(18, 30), Time(19, 0), Time(10, 0), Time(10, 0)))
\* _ensure_times_are_as_expected: None when it raises PageChangedException
EnsureTimes(board_div) ==
    IF Len(board_div.ps) # 3 THEN None
    ELSE IF Len(board_div.lac_ps) < 2 THEN None
    ELSE IF Strip(board_div.ps[1]) # expected_board_p THEN None
    ELSE IF Strip(board_div.ps[2]) # expected_general_p THEN None
    ELSE IF Strip(board_div.ps[3]) # expected_advisory_p THEN None
    ELSE IF Strip(board_div.lac_ps[1]) # expected_lac_p THEN None
    ELSE Some(MeetingTimes(Time(18, 30), Time(19, 0), Time(10, 0), Time(10, 0)))

\* _ensure_meetings_are_remote does not raise
EnsureRemote(board_div) ==
    IF Len(board_div.remote_ps) # 1 THEN FALSE
    ELSE Contains(board_div.remote_ps[1], statement)

\* a bug: _get_dates takes the first three lists when there are more
UlCountsAtLeast(board_div) ==
    IF Len(board_div.uls) < 3 THEN FALSE
    ELSE Len(board_div.lac_uls) = 1
\* the two counts of _get_dates are as expected
UlCountsOk(board_div) ==
    IF Len(board_div.uls) # 3 THEN FALSE
    ELSE Len(board_div.lac_uls) = 1

\* _lis_from_ul
LisFromUl(some_ul) == [k \in 1..Len(some_ul) |-> Strip(some_ul[k])]

Raise(exc) ==
    /\ pc' = "raised"
    /\ error' = exc
    /\ UNCHANGED <<meeting_times, lis, cat, i>>

\* board_div = tree.xpath(...); if len(board_div) != 1: raise
ParseFindBoard ==
    /\ pc = "parse"
    /\ IF page.n_board # 1
       THEN Raise("PageChangedException")
       ELSE pc' = "_ensure_times_are_as_expected"
            /\ UNCHANGED <<error, meeting_times, lis, cat, i>>
    /\ UNCHANGED <<entry, page, dates, args, out, acc, returned, now, handed,
                   warnings, read_log, input>>

ParseEnsureTimes ==
    /\ pc = "_ensure_times_are_as_expected"
    /\ IF EnsureTimes(page) = None
       THEN Raise("PageChangedException")
       ELSE /\ pc' = "_ensure_meetings_are_remote"
            /\ meeting_times' = EnsureTimes(page)
            /\ UNCHANGED <<error, lis, cat, i>>
    /\ UNCHANGED <<entry, page, dates, args, out, acc, returned, now, handed,
                   warnings, read_log, input>>

ParseEnsureRemote ==
    /\ pc = "_ensure_meetings_are_remote"
    /\ IF ~EnsureRemote(page)
       THEN Raise("PageChangedException")
       ELSE pc' = "_get_dates"
            /\ UNCHANGED <<error, meeting_times, lis, cat, i>>
    /\ UNCHANGED <<entry, page, dates, args, out, acc, returned, now, handed,
                   warnings, read_log, input>>

\* _get_dates up to its first call of _date_from_lis
ParseGetDates ==
    /\ pc = "_get_dates"
    /\ IF ~UlCountsOk(page)
       THEN Raise("PageChangedException")
       ELSE /\ pc' = "_date_from_lis"
            /\ lis' = <<LisFromUl(page.uls[1]), LisFromUl(page.uls[2]),
                        LisFromUl(page.uls[3]), LisFromUl(page.lac_uls[1])>>
            /\ cat' = 1
            /\ i' = 1
            /\ UNCHANGED <<error, meeting_times>>
    /\ UNCHANGED <<entry, page, dates, args, out, acc, returned, now, handed,
                   warnings, read_log, input>>

Pad(text) == <<"\n", " ">> \o text \o <<"U+00A0">>
other_p == <<"LAC Executive Committee">>

PsPool == {
    <<expected_board_p, expected_general_p, expected_advisory_p>>,
    <<Pad(expected_board_p), Pad(expected_general_p), Pad(expected_advisory_p)>>,
    <<<<"ACLA Board meetings (7:00 pm)">>, expected_general_p, expected_advisory_p>>,
    <<expected_board_p, expected_board_p, expected_advisory_p>>,
    <<expected_board_p, expected_general_p, <<"(10:00", " ", "am)">> >>,
    <<expected_general_p, expected_board_p, expected_advisory_p>>,
    <<expected_board_p, expected_general_p>>,
    <<expected_board_p, expected_general_p, expected_advisory_p, expected_lac_p>> }

LacPsPool == {
    <<expected_lac_p, other_p>>,
    <<Pad(expected_lac_p), other_p, other_p>>,
    <<other_p, expected_lac_p>>,
    <<expected_lac_p>>,
    <<>> }

remote_p == <<"*", " ">> \o statement \o <<".">>

RemotePsPool == {
    <<remote_p>>,
    <<>>,
    <<remote_p, remote_p>>,
    <<other_p>> }

UlPool == {
    <<<<" ","M","o","n","d","a","y",","," ","F","e","b","r","u","a","r","y"," ","2","2"," ","-"," ","B","O","A","R","D"," ","R","E","T","R","E","A","T","\n">>,
      <<"M","o","n","d","a","y",","," ","S","e","p","t","e","m","b","e","r"," ","2","7">>>>,
    <<<<"W","e","d","n","e","s","d","a","y",","," ","J","a","n","u","a","r","y"," ","6">>>>,
    <<<<"(","t","e","n","t","a","t","i","v","e",")">>, <<"M","o","n","d","a","y",","," ","J","a","n","u","a","r","y"," ","2","5"," ","U+2013"," ","C","A","N","C","E","L","E","D">>>>,
    <<<<"T","u","e","s","d","a","y",","," ","F","e","b","r","u","a","r","y"," ","3","0">>>>,
    <<>> }

\* the lists of a page whose lists are not what varies
SomeUls == <<
    <<<<"M","o","n","d","a","y",","," ","S","e","p","t","e","m","b","e","r"," ","2","7">>>>,
    <<<<"M","o","n","d","a","y",","," ","J","a","n","u","a","r","y"," ","2","5"," ","U+2013"," ","C","A","N","C","E","L","E","D">>>>,
    <<>>,
    <<<<"W","e","d","n","e","s","d","a","y",","," ","J","a","n","u","a","r","y"," ","6">>>> >>

Pages ==
    {[n_board |-> n, ps |-> ps, lac_ps |-> lps, remote_ps |-> rps,
      uls |-> SubSeq(SomeUls, 1, nu), lac_uls |-> SubSeq(SomeUls, 3, 2 + nl)] :
        n \in 0..2, ps \in PsPool, lps \in LacPsPool, rps \in RemotePsPool,
        nu \in 2..4, nl \in 0..2}
    \cup
    {[n_board |-> 1,
      ps |-> <<expected_board_p, expected_general_p, expected_advisory_p>>,
      lac_ps |-> <<expected_lac_p, other_p>>, remote_ps |-> <<remote_p>>,
      uls |-> <<u1, u2, u3>>, lac_uls |-> <<u4>>] :
        u1 \in UlPool, u2 \in UlPool, u3 \in UlPool, u4 \in UlPool}

InitPage ==
    /\ page \in Pages
    /\ input = [kind |-> "page"]
    /\ entry = "parse"
    /\ pc = "parse"
    /\ now = ClockStart(2021)
    /\ meeting_times = None
    /\ lis = <<>>
    /\ dates = <<>>
    /\ args = <<>>
    /\ cat = 1
    /\ i = 1
    /\ out = <<>>
    /\ acc = <<>>
    /\ returned = None
    /\ error = "none"
    /\ handed = 0
    /\ warnings = 0
    /\ read_log = <<>>

NextPage ==
    \/ ParseFindBoard
    \/ ParseEnsureTimes
    \/ ParseEnsureRemote
    \/ ParseGetDates
    \/ DateFromLisStep
    \/ DateFromLisReturn
    \/ MakeMeetingStep
    \/ MakeMeetingReturn
    \/ Tick

SpecPage == InitPage /\ [][NextPage]_vars

-----------------------------------------------------------------------------
(* What the properties below speak of.                                     *)

\* every meeting made so far by the entry call
AllMeetings == IF pc = "_make_meeting" THEN acc \o out ELSE acc

Cancelled == <<"c","a","n","c","e","l","l","e","d">>

\* the note is present and holds "canceled" or "cancelled", whatever the case
HasCancellationText(notes) ==
    /\ notes # None
    /\ \/ Contains(Casefold(notes[1]), Canceled)
       \/ Contains(Casefold(notes[1]), Cancelled)

\* the minutes of a datetime, counted so that an earlier datetime has fewer
Minutes(dt) == ((((dt.y * 12 + dt.m) * 31 + dt.d) * 24 + dt.h) * 60) + dt.mi

\* the date of a datetime
DateOf(dt) == Date(dt.y, dt.m, dt.d)

\* the parts of the line are a weekday name, a comma, spaces, a full month name,
\* spaces and a number, whatever follows
IsGrammarLine(li) ==
    Plus("\\d", Casefold(li), DayStart(Casefold(li))) # 0

\* how many lines of l are of the grammar
GrammarLines(l) == Cardinality({k \in 1..Len(l) : IsGrammarLine(l[k])})

-----------------------------------------------------------------------------
(* The schedule assembler, _make_meeting (SpecMake).                       *)

\* C1: a meeting's status is cancelled if and only if its note is present and
\* holds "canceled" or "cancelled" in any case, whatever start and now are.
C1_CancelledIffCancellationText ==
    \A k \in 1..Len(AllMeetings) :
        (AllMeetings[k].status = CANCELLED) <=> HasCancellationText(AllMeetings[k].time_notes)

\* C2: a meeting whose note is absent or holds no cancellation text is passed
\* exactly when its start, the date combined with the time of day, is strictly
\* before the now its status was decided against, and confirmed otherwise; no
\* status but cancelled, passed and confirmed is produced.
C2_PassedIffStartBeforeNow ==
    \A k \in 1..Len(AllMeetings) :
        /\ AllMeetings[k].status \in {CANCELLED, PASSED, CONFIRMED}
        /\ ~HasCancellationText(dates[1][k].notes) =>
            /\ read_log[k] # None
            /\ (AllMeetings[k].status = PASSED) <=>
                   (Minutes(Combine(dates[1][k].the_date, args[1].meeting_time))
                        < Minutes(read_log[k][1]))
            /\ (AllMeetings[k].status = CONFIRMED) <=>
                   (Minutes(Combine(dates[1][k].the_date, args[1].meeting_time))
                        >= Minutes(read_log[k][1]))

\* C2 witness: a meeting with no cancellation text that starts at the very
\* minute its status is decided, and is confirmed; another call has a passed one.
C2_Witness ==
    /\ pc = "done"
    /\ \E k \in 1..Len(returned[1]) :
        /\ ~HasCancellationText(returned[1][k].time_notes)
        /\ read_log[k] = Some(returned[1][k].start)
        /\ returned[1][k].status = CONFIRMED

\* C3: a meeting's identity is the caller's prefix immediately followed by the
\* zero-padded YYYY_MM_DD of its start.
C3_IdentityIsPrefixThenDate ==
    \A k \in 1..Len(AllMeetings) :
        AllMeetings[k].id = args[1].id_prefix \o Strftime(AllMeetings[k].start)

\* C4: one call returns one meeting per MeetingDate, in the order given and
\* without dropping duplicates, and two of its meetings have the same identity
\* if and only if they have the same date.
C4_OnePerDateIdentityByDate ==
    /\ pc = "_make_meeting" => Len(out) = i - 1
    /\ pc = "done" =>
        /\ Len(returned[1]) = Len(input.dates)
        /\ \A k \in 1..Len(returned[1]) :
            /\ DateOf(returned[1][k].start) = input.dates[k].the_date
            /\ returned[1][k].time_notes = input.dates[k].notes
        /\ \A j, k \in 1..Len(returned[1]) :
            (returned[1][j].id = returned[1][k].id)
                <=> (input.dates[j].the_date = input.dates[k].the_date)

\* C4 witness: a call given the same date twice has returned two meetings with
\* one identity.
C4_Witness ==
    /\ pc = "done"
    /\ Len(returned[1]) = 2
    /\ input.dates[1].the_date = input.dates[2].the_date
    /\ input.dates[1].notes # input.dates[2].notes
    /\ returned[1][1].id = returned[1][2].id

\* C10: two meetings of one call with the same date and no cancellation text
\* have the same status, even if the clock advances while the call runs.
C10_OneNowPerCall ==
    \A j, k \in 1..Len(AllMeetings) :
        (/\ dates[1][j].the_date = dates[1][k].the_date
         /\ ~HasCancellationText(dates[1][j].notes)
         /\ ~HasCancellationText(dates[1][k].notes))
        => AllMeetings[j].status = AllMeetings[k].status

-----------------------------------------------------------------------------
(* The date-line parser, _date_from_lis (SpecLis).                         *)

\* where the text t starts once its leading whitespace is passed
TextStart(t) == SkipWhile("\\s", t, 1)

\* the text after a one-space separator starts with a dash and a space: the line
\* is the line whose separator is the dash
Reseparated(in) ==
    /\ Len(in.sep) = 1
    /\ TextStart(in.text) + 1 <= Len(in.text)
    /\ IsDash(in.text[TextStart(in.text)])
    /\ IsSpace(in.text[TextStart(in.text) + 1])

C6_NonGrammarLineSkipped ==
    input.kind = "list" =>
        /\ pc = "raised" => IsGrammarLine(lis[1][i])
        /\ pc = "done" =>
            /\ warnings = Len(lis[1]) - GrammarLines(lis[1])
            /\ Len(returned[1]) = GrammarLines(lis[1])

\* C9: the line "Thursday, <Month> <day>" raises exactly when the month and the
\* day are not a date of the current year, and gives that date of the current
\* year when they are.
C9_ValidDateOfCurrentYear ==
    input.kind = "cal" =>
        /\ pc = "raised" => ~ValidDate(now.y, input.month, input.day)
        /\ pc = "done" =>
            /\ ValidDate(now.y, input.month, input.day)
            /\ returned[1] = << MeetingDate(Date(now.y, input.month, input.day), Remote, None) >>

-----------------------------------------------------------------------------
(* The page parse, parse (SpecPage).                                       *)

\* the paragraphs of the meeting times are those of the template
TimesAsExpected(p) ==
    /\ Len(p.ps) = 3
    /\ Len(p.lac_ps) >= 2
    /\ Strip(p.ps[1]) = expected_board_p
    /\ Strip(p.ps[2]) = expected_general_p
    /\ Strip(p.ps[3]) = expected_advisory_p
    /\ Strip(p.lac_ps[1]) = expected_lac_p

\* no paragraph of the page holds the statement that the meetings are remote
StatementMissing(p) == \A k \in 1..Len(p.remote_ps) : ~Contains(p.remote_ps[k], statement)

\* the page is the template
Conforms(p) ==
    /\ p.n_board = 1
    /\ TimesAsExpected(p)
    /\ Len(p.remote_ps) = 1
    /\ ~StatementMissing(p)
    /\ Len(p.uls) = 3
    /\ Len(p.lac_uls) = 1

BeforeDates == {"parse", "_ensure_times_are_as_expected", "_ensure_meetings_are_remote",
                "_get_dates", "raised"}

TimesChecked == page.n_board = 1 /\ pc \notin {"parse", "_ensure_times_are_as_expected"}

\* C8: _ensure_times_are_as_expected succeeds exactly when there are 3 top-level
\* paragraphs and at least 2 nested ones and the trimmed texts of the 3 and of
\* the first nested one are the four fixed strings; then it returns 18:30,
\* 19:00, 10:00 and 10:00, and else it raises PageChangedException; and
\* _ensure_meetings_are_remote raises when the statement is missing.
C8_TimesVerified ==
    TimesChecked =>
        /\ (meeting_times # None) <=> TimesAsExpected(page)
        /\ meeting_times # None =>
            meeting_times[1] = MeetingTimes(Time(18, 30), Time(19, 0), Time(10, 0), Time(10, 0))
        /\ meeting_times = None => (pc = "raised" /\ error = "PageChangedException")
        /\ (meeting_times # None /\ StatementMissing(page)) =>
            /\ pc \in {"_ensure_meetings_are_remote", "raised"}
            /\ pc = "raised" => error = "PageChangedException"

\* C8 witness: the check has succeeded on paragraphs padded with whitespace and
\* three nested paragraphs.
C8_Witness ==
    /\ pc = "_ensure_meetings_are_remote"
    /\ meeting_times # None
    /\ page.ps[1] # expected_board_p
    /\ Len(page.lac_ps) = 3

====
